---- MODULE Spec2Model ----
(***************************************************************************)
(* The preview proxy's in-process certificate authority                    *)
(* (apps/client/electron/main/preview-proxy-ca.ts): a lazily built root,   *)
(* per-hostname leaf issuance and the cache of TLS secure contexts.        *)
(*                                                                         *)
(* Both exported functions are synchronous.  A call is requested by the    *)
(* proxy (pc = "pending"), then runs on the single JavaScript thread       *)
(* (running): Begin covers lines 83-90 of ensureServerContext, Issue       *)
(* covers lines 92-128.  While a call is between the two, no other call    *)
(* can start.  Every library call that can throw (key generation,          *)
(* signing, PEM encoding, tls.createSecureContext) fails                   *)
(* nondeterministically.                                                   *)
(***************************************************************************)
EXTENDS Integers, Sequences, FiniteSets, TLC

VARIABLES
    caKeyPair,          \* module state, line 20: <<>> (null) or <<keyPair>>
    caCertificate,      \* line 21: <<>> or <<certificate>>
    caCertificatePem,   \* line 22: <<>> (null) or the PEM text (one block)
    caFingerprint256,   \* line 23: <<>> or <<fingerprint>>
    secureContextCache, \* line 25: hostname -> SecureContext
    now,                \* the latest reading of the clock (new Date()), in days
    pc,                 \* caller -> "idle" | "pending" | "issuing" | "done"
    op,                 \* caller -> the exported function it calls
    arg,                \* caller -> the hostname argument
    result,             \* caller -> what the call returned or threw
    running,            \* the callers whose call is on the stack: none or one
    keyGens,            \* history: forge.pki.rsa.generateKeyPair calls so far
    rootBuilds,         \* history: root key generations so far
    caBuiltAt,          \* history: <<>> or <<clock at the root's construction>>
    issuedAt,           \* history: hostname -> clock at its issuance
    attempts,           \* history: caller -> issuances run by its current call
    overlap,            \* history: caller -> callers in flight with its call
    calls,              \* history: calls requested so far
    faults,             \* history: library calls that threw so far
    probe               \* the host classifier applied to one input string

vars == <<caKeyPair, caCertificate, caCertificatePem, caFingerprint256,
          secureContextCache, now, pc, op, arg, result, running, keyGens,
          rootBuilds, caBuiltAt, issuedAt, attempts, overlap, calls, faults,
          probe>>

----------------------------------------------------------------------------
(* Bounds of the model. *)

MaxCalls == 3
MaxSerial == 2
MaxFaults == 1
MaxLen == 4

\* Two callers: enough for two calls to be requested at the same time.
Callers == 1..2
Serials == 1..MaxSerial

----------------------------------------------------------------------------
(* Program constants. *)

CA_COMMON_NAME == "Cmux Preview Proxy CA"
SERVER_ORG == "Cmux Preview Proxy"

Null == <<>>

----------------------------------------------------------------------------
(* Date arithmetic: the local calendar fields of a JavaScript Date, at day  *)
(* granularity (the time of day is carried through unchanged by setDate     *)
(* and setFullYear).  A Date is a day number, 0 = 1 January 1970.           *)

DaysFromCivil(y, m, d) ==
    LET yy  == IF m <= 2 THEN y - 1 ELSE y
        era == yy \div 400
        yoe == yy - era * 400
        mp  == (m + 9) % 12
        doy == (153 * mp + 2) \div 5 + d - 1
        doe == yoe * 365 + yoe \div 4 - yoe \div 100 + doy
    IN  era * 146097 + doe - 719468

\* The calendar fields of a day number, computed in steps: era (400 years),
\* day of era, year of era, day of year (from 1 March), month, day.
CivilOfMonth(era, yoe, d, m) ==
    [year  |-> yoe + era * 400 + (IF m <= 2 THEN 1 ELSE 0),
     month |-> m,
     day   |-> d]

CivilOfMp(era, yoe, doy, mp) ==
    CivilOfMonth(era, yoe, doy - (153 * mp + 2) \div 5 + 1,
                 IF mp < 10 THEN mp + 3 ELSE mp - 9)

CivilOfDoy(era, yoe, doy) == CivilOfMp(era, yoe, doy, (5 * doy + 2) \div 153)

CivilOfYoe(era, doe, yoe) ==
    CivilOfDoy(era, yoe, doe - (365 * yoe + yoe \div 4 - yoe \div 100))

CivilOfDoe(era, doe) ==
    CivilOfYoe(era, doe,
               (doe - doe \div 1460 + doe \div 36524 - doe \div 146096) \div 365)

CivilOfEra(zz) == CivilOfDoe(zz \div 146097, zz % 146097)

CivilFromDays(z) == CivilOfEra(z + 719468)

getFullYear(t) == CivilFromDays(t).year
getMonth(t) == CivilFromDays(t).month
getDate(t) == CivilFromDays(t).day

\* Date.prototype.setDate(n): day n of the same month, n outside the month
\* carrying into the neighbouring months.
setDate(t, n) == DaysFromCivil(getFullYear(t), getMonth(t), 1) + n - 1

\* Date.prototype.setFullYear(y): same month and day of year y, 29 February
\* carrying into 1 March when y is not a leap year.
setFullYear(t, y) == DaysFromCivil(y, getMonth(t), 1) + getDate(t) - 1

\* Lines 36-39: the root's validity window, built at clock t.
RootValidity(t) ==
    LET notBefore == setDate(t, getDate(t) - 1)
    IN  [notBefore |-> notBefore,
         notAfter  |-> setFullYear(t, getFullYear(notBefore) + 5)]

\* Lines 96-99: a leaf's validity window, issued at clock t.
LeafValidity(t) ==
    LET notBefore == setDate(t, getDate(t) - 1)
    IN  [notBefore |-> notBefore,
         notAfter  |-> setFullYear(t, getFullYear(notBefore) + 1)]

StartDay == DaysFromCivil(2023, 12, 31)
\* The instants new Date() can return while the calls run: 31 December 2023
\* and 1 January 2024.  The clock never runs backwards.
Instants == {StartDay, StartDay + 1}

----------------------------------------------------------------------------
(* Hostnames are strings: sequences of one-character strings. *)

Digits == {"0", "1", "2", "3", "4", "5", "6", "7", "8", "9"}
HexChars == Digits \cup {"a", "b", "c", "d", "e", "f", "A", "B", "C", "D", "E", "F"}

HostV4 == <<"1", ".", "2", ".", "3", ".", "4">>
HostOctet == <<"2", "5", "6", ".", "1", ".", "1", ".", "1">>
HostHex == <<"c", "a", "f", "e">>
HostDns == <<"a", ".", "i", "o">>
HostV6 == <<":", ":", "1">>
HostEmpty == <<>>

\* The hostnames the proxy asks contexts for: hostname is any string, the
\* empty one included (line 145 takes it as it comes).
Hosts == {HostEmpty, HostDns}

\* Names that differ from HostDns in one respect only: the case of a letter,
\* a trailing dot, a wildcard label.
HostUpper == <<"A", ".", "i", "o">>
HostDot == <<"a", ".", "i", "o", ".">>
HostWild == <<"*", ".", "i", "o">>
NearNames == {HostDns, HostUpper, HostDot, HostWild}
\* The two of them the proxy asks contexts for.
NearHosts == {HostDns, HostUpper}

\* The inputs of the classifier: every string of at most MaxLen characters
\* over a small alphabet, and the named hostnames.
Alphabet == {"1", "a", "g", ".", ":"}
Strings == UNION {[1..n -> Alphabet] : n \in 0..MaxLen}
ProbeHosts == Strings \cup {HostV4, HostOctet, HostHex, HostDns, HostV6}

RECURSIVE SplitOn(_, _)
\* The maximal runs of s between occurrences of the character sep.
SplitOn(s, sep) ==
    IF \A i \in 1..Len(s) : s[i] # sep
    THEN <<s>>
    ELSE LET i == CHOOSE k \in 1..Len(s) :
                      s[k] = sep /\ \A j \in 1..(k - 1) : s[j] # sep
         IN  <<SubSeq(s, 1, i - 1)>> \o SplitOn(SubSeq(s, i + 1, Len(s)), sep)

AllIn(s, chars) == \A i \in 1..Len(s) : s[i] \in chars

\* Line 140: /^\d+\.\d+\.\d+\.\d+$/
MatchesDottedDigits(s) ==
    LET groups == SplitOn(s, ".")
    IN  /\ Len(groups) = 4
        /\ \A i \in 1..4 : Len(groups[i]) >= 1 /\ AllIn(groups[i], Digits)

\* Line 141: /^[0-9a-fA-F:]+$/
MatchesHexColon(s) == Len(s) >= 1 /\ AllIn(s, HexChars \cup {":"})

\* Lines 138-143.
isIpAddress(hostname) ==
    MatchesDottedDigits(hostname) \/ MatchesHexColon(hostname)

\* Lines 131-136: one entry, type 7 (iPAddress) or type 2 (dNSName).
buildAltNames(hostname) ==
    IF isIpAddress(hostname)
    THEN <<[type |-> 7, value |-> hostname]>>
    ELSE <<[type |-> 2, value |-> hostname]>>

----------------------------------------------------------------------------
(* Keys, certificates, encodings. *)

\* Mutant: every key generation yields the keypair of the first one.
KeyPairReused(k) == [publicKey |-> <<"public", 1>>, privateKey |-> <<"private", 1>>]

\* forge.pki.rsa.generateKeyPair: the k-th key generation of the process
\* yields a keypair unlike every earlier one.
KeyPair(k) == [publicKey |-> <<"public", k>>, privateKey |-> <<"private", k>>]

\* The public key a private key belongs to.
PublicOf(privateKey) == <<"public", privateKey[2]>>

\* forge.pki.certificateToPem / privateKeyToPem: a text of one PEM block.
certificateToPem(cert) == <<[label |-> "CERTIFICATE", body |-> cert]>>
privateKeyToPem(key) == <<[label |-> "RSA PRIVATE KEY", body |-> key]>>

\* Lines 78-80, applied to the certificate's DER encoding (lines 64-66).
sha256FingerprintFromDer(cert) == <<"SHA256", cert>>

\* cert.sign(privateKey, md): the certificate with its signature.
sign(cert, privateKey) == [cert EXCEPT !.signedWith = privateKey]

\* Mutant: the root certificate carries a public key that is not the
\* generated keypair's.
RootCertificateForeignKey(keyPair, serial, t) ==
    [publicKey    |-> <<"public", 0>>,
     serialNumber |-> serial,
     validity     |-> RootValidity(t),
     subject      |-> <<[name |-> "commonName", value |-> CA_COMMON_NAME]>>,
     issuer       |-> <<[name |-> "commonName", value |-> CA_COMMON_NAME]>>,
     cA           |-> TRUE,
     keyUsage     |-> {"keyCertSign", "digitalSignature", "cRLSign"},
     extKeyUsage  |-> {},
     altNames     |-> <<>>,
     signedWith   |-> keyPair.privateKey]

\* Lines 33-61: the self-signed root certificate.
RootCertificate(keyPair, serial, t) ==
    LET attrs == <<[name |-> "commonName", value |-> CA_COMMON_NAME]>>
    IN  sign([publicKey    |-> keyPair.publicKey,
              serialNumber |-> serial,
              validity     |-> RootValidity(t),
              subject      |-> attrs,
              issuer       |-> attrs,
              cA           |-> TRUE,
              keyUsage     |-> {"keyCertSign", "digitalSignature", "cRLSign"},
              extKeyUsage  |-> {},
              altNames     |-> <<>>,
              signedWith   |-> <<>>],
             keyPair.privateKey)

\* Mutant: the leaf is marked as a CA that may sign certificates.
LeafBodyAsCa(hostname, keyPair, serial, t, rootCert) ==
    [publicKey    |-> keyPair.publicKey,
     serialNumber |-> serial,
     validity     |-> LeafValidity(t),
     subject      |-> <<[name |-> "commonName", value |-> hostname],
                        [name |-> "organizationName", value |-> SERVER_ORG]>>,
     issuer       |-> rootCert.subject,
     cA           |-> TRUE,
     keyUsage     |-> {"digitalSignature", "keyEncipherment", "keyCertSign"},
     extKeyUsage  |-> {"serverAuth"},
     altNames     |-> buildAltNames(hostname),
     signedWith   |-> <<>>]

\* Lines 93-117: the leaf certificate for hostname before it is signed.
LeafBody(hostname, keyPair, serial, t, rootCert) ==
    [publicKey    |-> keyPair.publicKey,
     serialNumber |-> serial,
     validity     |-> LeafValidity(t),
     subject      |-> <<[name |-> "commonName", value |-> hostname],
                        [name |-> "organizationName", value |-> SERVER_ORG]>>,
     issuer       |-> rootCert.subject,
     cA           |-> FALSE,
     keyUsage     |-> {"digitalSignature", "keyEncipherment"},
     extKeyUsage  |-> {"serverAuth"},
     altNames     |-> buildAltNames(hostname),
     signedWith   |-> <<>>]

\* Mutant: the leaf is signed with its own private key.
LeafCertificateSelfSigned(hostname, keyPair, serial, t, rootCert, rootKeyPair) ==
    sign(LeafBody(hostname, keyPair, serial, t, rootCert), keyPair.privateKey)

\* Lines 93-119: the leaf certificate, signed with the root's private key.
LeafCertificate(hostname, keyPair, serial, t, rootCert, rootKeyPair) ==
    sign(LeafBody(hostname, keyPair, serial, t, rootCert), rootKeyPair.privateKey)

\* Mutant: the chain text holds the root before the leaf.
SecureContextRootFirst(leafCert, keyPair, rootPem) ==
    [key  |-> privateKeyToPem(keyPair.privateKey),
     cert |-> rootPem \o certificateToPem(leafCert)]

\* Mutant: the context is given the root's private key.
SecureContextWithRootKey(leafCert, keyPair, rootPem) ==
    [key  |-> privateKeyToPem(caKeyPair[1].privateKey),
     cert |-> certificateToPem(leafCert) \o rootPem]

\* Lines 121-126: tls.createSecureContext({key, cert}), the cert text being
\* the leaf's PEM followed by the root's.
SecureContext(leafCert, keyPair, rootPem) ==
    [key  |-> privateKeyToPem(keyPair.privateKey),
     cert |-> certificateToPem(leafCert) \o rootPem]

\* Mutant: the guard of line 28 always finds the root built.
CaReadyAlways == TRUE

\* Mutant: the guard of line 28 never finds the root built.
CaReadyNever == FALSE

\* Line 28: all four root fields are set.
CaReady ==
    /\ caKeyPair # Null
    /\ caCertificate # Null
    /\ caCertificatePem # Null
    /\ caFingerprint256 # Null

\* Mutant: the lookup of line 87 never finds an entry.
CacheGetMiss(cache, hostname) == <<>>

\* A name with its letters in lower case and without a trailing dot.
Folded(hostname) ==
    LET lower == [i \in DOMAIN hostname |->
                     IF hostname[i] = "A" THEN "a" ELSE hostname[i]]
    IN  IF lower # <<>> /\ lower[Len(lower)] = "."
        THEN SubSeq(lower, 1, Len(lower) - 1)
        ELSE lower

\* Mutant: the lookup ignores letter case and a trailing dot.
CacheGetFolded(cache, hostname) ==
    IF \E g \in DOMAIN cache : Folded(g) = Folded(hostname)
    THEN <<cache[CHOOSE g \in DOMAIN cache : Folded(g) = Folded(hostname)]>>
    ELSE <<>>

\* Mutant: the lookup returns whatever entry there is.
CacheGetAny(cache, hostname) ==
    IF DOMAIN cache # {}
    THEN <<cache[CHOOSE g \in DOMAIN cache : TRUE]>>
    ELSE <<>>

\* Lines 87-90: the cached context of hostname, <<>> when there is none.
CacheGet(cache, hostname) ==
    IF hostname \in DOMAIN cache THEN <<cache[hostname]>> ELSE <<>>

\* Mutant: line 127 is missing, the context is returned but not stored.
CacheSetDropped(cache, hostname, ctx) == cache

\* Mutant: storing an entry evicts every other one.
CacheSetEvicting(cache, hostname, ctx) == [h \in {hostname} |-> ctx]

\* Line 127: secureContextCache.set(hostname, secureContext).
CacheSet(cache, hostname, ctx) ==
    [h \in DOMAIN cache \cup {hostname} |->
        IF h = hostname THEN ctx ELSE cache[h]]

\* Mutant: the context is stored before the steps that can throw.
CacheAfterIssueEager(cache, hostname, ctx, failure) ==
    [h \in DOMAIN cache \cup {hostname} |-> IF h = hostname THEN ctx ELSE cache[h]]

\* Mutant: an issuance that throws empties the cache.
CacheAfterIssueCleared(cache, hostname, ctx, failure) ==
    IF failure = "none"
    THEN [h \in DOMAIN cache \cup {hostname} |-> IF h = hostname THEN ctx ELSE cache[h]]
    ELSE <<>>

\* Lines 92-127: the cache after an issuance; line 127 is reached only when
\* no step before it threw (failure = "none").
CacheAfterIssue(cache, hostname, ctx, failure) ==
    IF failure = "none" THEN CacheSet(cache, hostname, ctx) ELSE cache

----------------------------------------------------------------------------
(* The calls. *)

GetContext == "getSecureContextForHostname"
GetAuthority == "getPreviewProxyCertificateAuthority"

\* Where the construction of the root can throw (lines 32, 61).
RootFailures == {"none", "keygen", "sign"}
\* Where an issuance can throw (lines 92, 119, 121-122, 123-126).
LeafFailures == {"none", "keygen", "sign", "pem", "context"}

NoResult == [kind |-> "none", value |-> <<>>]
Thrown(at) == [kind |-> "thrown", value |-> at]
Returned(kind, v) == [kind |-> kind, value |-> v]

\* What the caller catches when the call threw at step `at`.  No call of the
\* module is wrapped in try/catch, so the library's own Error reaches the
\* caller as it is; lines 85 and 152 throw a plain Error too.
ErrorOf(at) ==
    [name |-> "Error",
     from |-> CASE at \in {"root.keygen", "leaf.keygen"} ->
                       "forge.pki.rsa.generateKeyPair"
                [] at \in {"root.sign", "leaf.sign"} -> "cert.sign"
                [] at = "leaf.pem" -> "forge.pki.certificateToPem"
                [] at = "leaf.context" -> "tls.createSecureContext"
                [] OTHER -> "preview-proxy-ca"]

\* Lines 27-72.  The root fields and counters after the call, and what it
\* threw; the four fields are assigned only after every step that can throw.
\* t is the clock read at lines 36 and 38.
ensureCertificateAuthority(failure, serial, t) ==
    LET same == [thrown      |-> "none",
                 keyPair     |-> caKeyPair,
                 certificate |-> caCertificate,
                 pem         |-> caCertificatePem,
                 fingerprint |-> caFingerprint256,
                 keyGens     |-> keyGens,
                 rootBuilds  |-> rootBuilds,
                 builtAt     |-> caBuiltAt,
                 clock       |-> now]
        keyPair == KeyPair(keyGens + 1)
        cert == RootCertificate(keyPair, serial, t)
    IN  IF CaReady THEN same
        ELSE IF failure = "keygen"
        THEN [same EXCEPT !.thrown = "root.keygen"]
        ELSE IF failure # "none"
        THEN [same EXCEPT !.thrown = "root." \o failure,
                          !.keyGens = keyGens + 1,
                          !.rootBuilds = rootBuilds + 1,
                          !.clock = t]
        ELSE [thrown      |-> "none",
              keyPair     |-> <<keyPair>>,
              certificate |-> <<cert>>,
              pem         |-> certificateToPem(cert),
              fingerprint |-> <<sha256FingerprintFromDer(cert)>>,
              keyGens     |-> keyGens + 1,
              rootBuilds  |-> rootBuilds + 1,
              builtAt     |-> <<t>>,
              clock       |-> t]

\* The library calls that may still throw.
MayThrow(failures) == IF faults < MaxFaults THEN failures ELSE {"none"}

\* What the clock can read next: it never runs backwards.
Later == {t \in Instants : t >= now}

InFlight(c) == pc[c] \in {"pending", "issuing"}

rootVars == <<caKeyPair, caCertificate, caCertificatePem, caFingerprint256,
              rootBuilds, caBuiltAt>>
leafVars == <<secureContextCache, issuedAt>>

\* The proxy asks for a context (a TLS handshake names hostname h) or for
\* the root info; the call runs when the thread is free.  A caller that has
\* taken the outcome of its previous call may call again.  Callers are
\* interchangeable: a caller makes its first call only after the callers
\* numbered below it have made theirs.
Request(c, f, h) ==
    /\ pc[c] \in {"idle", "done"}
    /\ \A d \in Callers : d < c => pc[d] # "idle"
    /\ calls < MaxCalls
    /\ calls' = calls + 1
    /\ pc' = [pc EXCEPT ![c] = "pending"]
    /\ op' = [op EXCEPT ![c] = f]
    /\ arg' = [arg EXCEPT ![c] = h]
    /\ result' = [result EXCEPT ![c] = NoResult]
    /\ attempts' = [attempts EXCEPT ![c] = 0]
    /\ LET with == {d \in Callers \ {c} : InFlight(d)}
       IN  overlap' = [d \in Callers |->
                         IF d = c THEN with
                         ELSE IF d \in with THEN overlap[d] \cup {c}
                         ELSE overlap[d] \ {c}]
    /\ UNCHANGED <<rootVars, leafVars, now, running, keyGens, faults, probe>>

\* getSecureContextForHostname, lines 145-147 and 83-90: the root is ensured,
\* then the cache is consulted; a miss goes on to the issuance.
Begin(c) ==
    /\ running = {}
    /\ pc[c] = "pending"
    /\ op[c] = GetContext
    /\ \E failure \in MayThrow(RootFailures), serial \in Serials, t \in Later :
         LET ca == ensureCertificateAuthority(failure, serial, t)
             existing == CacheGet(secureContextCache, arg[c])
             outcome ==
                 IF ca.thrown # "none" THEN Thrown(ca.thrown)
                 ELSE IF ca.keyPair = Null \/ ca.certificate = Null \/ ca.pem = Null
                 THEN Thrown("Failed to initialize preview proxy certificate authority")
                 ELSE IF existing # <<>> THEN Returned("context", existing[1])
                 ELSE NoResult
         IN  /\ caKeyPair' = ca.keyPair
             /\ caCertificate' = ca.certificate
             /\ caCertificatePem' = ca.pem
             /\ caFingerprint256' = ca.fingerprint
             /\ keyGens' = ca.keyGens
             /\ rootBuilds' = ca.rootBuilds
             /\ caBuiltAt' = ca.builtAt
             /\ now' = ca.clock
             /\ faults' = IF ca.thrown # "none" THEN faults + 1 ELSE faults
             /\ result' = [result EXCEPT ![c] = outcome]
             /\ IF outcome.kind = "none"
                THEN /\ pc' = [pc EXCEPT ![c] = "issuing"]
                     /\ running' = {c}
                     /\ attempts' = [attempts EXCEPT ![c] = @ + 1]
                ELSE /\ pc' = [pc EXCEPT ![c] = "done"]
                     /\ running' = {}
                     /\ attempts' = attempts
    /\ UNCHANGED <<leafVars, op, arg, overlap, calls, probe>>

\* ensureServerContext, lines 92-128: key generation, certificate, signature,
\* PEM texts, secure context, cache insertion, return.  t is the clock read
\* at lines 96 and 98.
Issue(c) ==
    /\ running = {c}
    /\ pc[c] = "issuing"
    /\ \E failure \in MayThrow(LeafFailures), serial \in Serials, t \in Later :
         LET hostname == arg[c]
             keyPair == KeyPair(keyGens + 1)
             cert == LeafCertificate(hostname, keyPair, serial, t,
                                     caCertificate[1], caKeyPair[1])
             secureContext == SecureContext(cert, keyPair, caCertificatePem)
         IN  /\ keyGens' = IF failure = "keygen" THEN keyGens ELSE keyGens + 1
             /\ now' = IF failure = "keygen" THEN now ELSE t
             /\ faults' = IF failure # "none" THEN faults + 1 ELSE faults
             /\ secureContextCache' =
                    CacheAfterIssue(secureContextCache, hostname, secureContext, failure)
             /\ issuedAt' = IF failure = "none"
                            THEN CacheSet(issuedAt, hostname, t)
                            ELSE issuedAt
             /\ result' = [result EXCEPT
                             ![c] = IF failure = "none"
                                    THEN Returned("context", secureContext)
                                    ELSE Thrown("leaf." \o failure)]
    /\ pc' = [pc EXCEPT ![c] = "done"]
    /\ running' = {}
    /\ UNCHANGED <<rootVars, op, arg, attempts, overlap, calls, probe>>

\* Mutant: returning the root info empties the cache.
AuthorityFlushing(c) ==
    /\ running = {}
    /\ pc[c] = "pending"
    /\ op[c] = GetAuthority
    /\ CaReady
    /\ result' = [result EXCEPT
                    ![c] = Returned("authority",
                                    [certificatePem |-> caCertificatePem,
                                     subject        |-> CA_COMMON_NAME,
                                     fingerprint256 |-> caFingerprint256[1]])]
    /\ pc' = [pc EXCEPT ![c] = "done"]
    /\ secureContextCache' = <<>>
    /\ UNCHANGED <<rootVars, issuedAt, now, keyGens, faults, op, arg, running,
                   attempts, overlap, calls, probe>>

\* getPreviewProxyCertificateAuthority, lines 149-159.
Authority(c) ==
    /\ running = {}
    /\ pc[c] = "pending"
    /\ op[c] = GetAuthority
    /\ \E failure \in MayThrow(RootFailures), serial \in Serials, t \in Later :
         LET ca == ensureCertificateAuthority(failure, serial, t)
             outcome ==
                 IF ca.thrown # "none" THEN Thrown(ca.thrown)
                 ELSE IF ca.pem = Null \/ ca.fingerprint = Null
                 THEN Thrown("Preview proxy certificate authority is not initialized")
                 ELSE Returned("authority",
                               [certificatePem |-> ca.pem,
                                subject        |-> CA_COMMON_NAME,
                                fingerprint256 |-> ca.fingerprint[1]])
         IN  /\ caKeyPair' = ca.keyPair
             /\ caCertificate' = ca.certificate
             /\ caCertificatePem' = ca.pem
             /\ caFingerprint256' = ca.fingerprint
             /\ keyGens' = ca.keyGens
             /\ rootBuilds' = ca.rootBuilds
             /\ caBuiltAt' = ca.builtAt
             /\ now' = ca.clock
             /\ faults' = IF ca.thrown # "none" THEN faults + 1 ELSE faults
             /\ result' = [result EXCEPT ![c] = outcome]
    /\ pc' = [pc EXCEPT ![c] = "done"]
    /\ UNCHANGED <<leafVars, op, arg, running, attempts, overlap, calls, probe>>

----------------------------------------------------------------------------
(* The pure functions of the module, each applied to one input: the host    *)
(* classifier and the SAN builder to a string, the two validity windows to  *)
(* a clock reading.                                                         *)

ProbeIdle ==
    [kind |-> "idle", hostname |-> <<>>, t |-> StartDay,
     isIp |-> <<>>, altNames |-> <<>>, leaf |-> <<>>, root |-> <<>>]

\* The clock readings probed: every day from 1 December 2023 to 1 March 2025.
ProbeDays == DaysFromCivil(2023, 12, 1)..DaysFromCivil(2025, 3, 1)

Probes ==
    {[ProbeIdle EXCEPT !.kind = "host", !.hostname = h] : h \in ProbeHosts}
        \cup {[ProbeIdle EXCEPT !.kind = "clock", !.t = d] : d \in ProbeDays}

programVars == <<caKeyPair, caCertificate, caCertificatePem, caFingerprint256,
                 secureContextCache, now, pc, op, arg, result, running, keyGens,
                 rootBuilds, caBuiltAt, issuedAt, attempts, overlap, calls, faults>>

ClassifyHost ==
    /\ probe.kind = "host"
    /\ probe.isIp = <<>>
    /\ probe' = [probe EXCEPT !.isIp = <<isIpAddress(probe.hostname)>>]
    /\ UNCHANGED programVars

BuildSan ==
    /\ probe.kind = "host"
    /\ probe.altNames = <<>>
    /\ probe' = [probe EXCEPT !.altNames = buildAltNames(probe.hostname)]
    /\ UNCHANGED programVars

LeafWindow ==
    /\ probe.kind = "clock"
    /\ probe.leaf = <<>>
    /\ probe' = [probe EXCEPT !.leaf = <<LeafValidity(probe.t)>>]
    /\ UNCHANGED programVars

RootWindow ==
    /\ probe.kind = "clock"
    /\ probe.root = <<>>
    /\ probe' = [probe EXCEPT !.root = <<RootValidity(probe.t)>>]
    /\ UNCHANGED programVars


InitProgram ==
    /\ caKeyPair = Null
    /\ caCertificate = Null
    /\ caCertificatePem = Null
    /\ caFingerprint256 = Null
    /\ secureContextCache = <<>>
    /\ now = StartDay
    /\ pc = [c \in Callers |-> "idle"]
    /\ op = [c \in Callers |-> GetContext]
    /\ arg = [c \in Callers |-> <<>>]
    /\ result = [c \in Callers |-> NoResult]
    /\ running = {}
    /\ keyGens = 0
    /\ rootBuilds = 0
    /\ caBuiltAt = <<>>
    /\ issuedAt = <<>>
    /\ attempts = [c \in Callers |-> 0]
    /\ overlap = [c \in Callers |-> {}]
    /\ calls = 0
    /\ faults = 0

Init == InitProgram /\ probe = ProbeIdle

Next ==
    \/ \E c \in Callers, h \in Hosts : Request(c, GetContext, h)
    \/ \E c \in Callers : Request(c, GetAuthority, <<>>)
    \/ \E c \in Callers : Begin(c)
    \/ \E c \in Callers : Issue(c)
    \/ \E c \in Callers : Authority(c)

Spec == Init /\ [][Next]_vars

\* The proxy asking contexts for names that are almost the same.
NearNext ==
    \/ \E c \in Callers, h \in NearHosts : Request(c, GetContext, h)
    \/ \E c \in Callers : Begin(c)
    \/ \E c \in Callers : Issue(c)

NearSpec == Init /\ [][NearNext]_vars

FnInit == InitProgram /\ probe \in Probes

FnNext == ClassifyHost \/ BuildSan \/ LeafWindow \/ RootWindow

FnSpec == FnInit /\ [][FnNext]_vars

----------------------------------------------------------------------------
(* Reference notions the claims are stated with. *)

DigitValue(ch) == CHOOSE v \in 0..9 : ToString(v) = ch

RECURSIVE DecimalValue(_)
DecimalValue(s) ==
    IF s = <<>> THEN 0
    ELSE 10 * DecimalValue(SubSeq(s, 1, Len(s) - 1)) + DigitValue(s[Len(s)])

HasChar(s, ch) == \E i \in 1..Len(s) : s[i] = ch

\* A valid IPv4 literal: four decimal octets, each 0..255.
IsIPv4Literal(s) ==
    LET groups == SplitOn(s, ".")
    IN  /\ Len(groups) = 4
        /\ \A i \in 1..4 :
              /\ Len(groups[i]) \in 1..3
              /\ AllIn(groups[i], Digits)
              /\ DecimalValue(groups[i]) <= 255

\* A valid IPv6 literal: eight groups of one to four hex digits, one run of
\* zero groups possibly written "::".
IsIPv6Literal(s) ==
    LET groups == SplitOn(s, ":")
        n == Len(groups)
        empty == {i \in 1..n : groups[i] = <<>>}
        full == (1..n) \ empty
    IN  /\ HasChar(s, ":")
        /\ AllIn(s, HexChars \cup {":"})
        /\ \A i \in 1..n : Len(groups[i]) <= 4
        /\ \/ empty = {} /\ n = 8
           \/ /\ Cardinality(full) <= 7
              /\ \/ \E i \in 2..(n - 1) : empty = {i}
                 \/ n >= 3 /\ empty = {1, 2}
                 \/ n >= 3 /\ empty = {n - 1, n}
                 \/ n = 3 /\ empty = {1, 2, 3}

IsIpLiteral(s) == IsIPv4Literal(s) \/ IsIPv6Literal(s)

----------------------------------------------------------------------------
(* Notions shared by the claims about the calls. *)

Done(c) == pc[c] = "done"
GotContext(c) == Done(c) /\ op[c] = GetContext /\ result[c].kind = "context"
GotAuthority(c) == Done(c) /\ op[c] = GetAuthority /\ result[c].kind = "authority"
LeafThrown == {"leaf." \o f : f \in LeafFailures \ {"none"}}
RootThrown == {"root." \o f : f \in RootFailures \ {"none"}}
\* c's call ended on a failure of the root's construction.
RootThrew(c) == Done(c) /\ result[c].kind = "thrown" /\ result[c].value \in RootThrown
IssueThrew(c) ==
    Done(c) /\ op[c] = GetContext /\ result[c].kind = "thrown"
            /\ result[c].value \in LeafThrown
\* c's call ended on the outcome of an issuance, run by it or found cached.
IssuanceOutcome(c) == GotContext(c) \/ IssueThrew(c)
\* c's call ran an issuance and it succeeded.
IssuedOk(c) == GotContext(c) /\ attempts[c] = 1
\* c and d asked for the same hostname and were in flight at the same time.
Overlapping(c, d) ==
    /\ c # d
    /\ d \in overlap[c]
    /\ op[c] = GetContext /\ op[d] = GetContext
    /\ arg[c] = arg[d]

LeafOf(ctx) == ctx.cert[1].body
CommonName(cert) == cert.subject[1].value

----------------------------------------------------------------------------
C2_SameContextAgain ==
    /\ [](\A c \in Callers :
            GotContext(c) =>
                /\ arg[c] \in DOMAIN secureContextCache
                /\ secureContextCache[arg[c]] = result[c].value)
    /\ [][\A h \in DOMAIN secureContextCache :
            /\ h \in DOMAIN secureContextCache'
            /\ secureContextCache'[h] = secureContextCache[h]]_vars
    /\ [][\A c, d \in Callers :
            (GotContext(c) /\ ~Done(d) /\ GotContext(d)' /\ arg'[d] = arg[c]) =>
                /\ result'[d].value = result[c].value
                /\ LeafOf(result'[d].value).serialNumber
                      = LeafOf(result[c].value).serialNumber]_vars

\* A caller holds the context it was given for a hostname; after a call for
\* another hostname, a later call for the first hostname was served the
\* same context from the cache.
C2_Witness ==
    \E c, d \in Callers :
        /\ c # d
        /\ GotContext(c) /\ GotContext(d)
        /\ arg[c] = arg[d]
        /\ attempts[d] = 0
        /\ calls = 3
        /\ Cardinality(DOMAIN secureContextCache) = 2
        /\ result[c].value = result[d].value

(* C3: the root keypair and certificate are built at most once: after the   *)
(* first successful construction no call generates a root key again, and    *)
(* every root info returned carries the same certificatePem and the same    *)
(* fingerprint256.                                                          *)
C3_RootBuiltOnce ==
    /\ [][caBuiltAt # <<>> =>
            /\ rootBuilds' = rootBuilds
            /\ caBuiltAt' = caBuiltAt
            /\ caKeyPair' = caKeyPair
            /\ caCertificate' = caCertificate
            /\ caCertificatePem' = caCertificatePem
            /\ caFingerprint256' = caFingerprint256]_vars
    /\ [](\A c \in Callers :
            GotAuthority(c) =>
                /\ caBuiltAt # <<>>
                /\ result[c].value.certificatePem = caCertificatePem
                /\ <<result[c].value.fingerprint256>> = caFingerprint256)
    /\ [](\A c, d \in Callers :
            (GotAuthority(c) /\ GotAuthority(d)) =>
                /\ result[c].value.certificatePem = result[d].value.certificatePem
                /\ result[c].value.fingerprint256 = result[d].value.fingerprint256)

\* Two calls have returned the root info and a context has been issued, all
\* with one root key generation.
C3_Witness ==
    /\ \E c, d \in Callers : c # d /\ GotAuthority(c) /\ GotAuthority(d)
    /\ secureContextCache # <<>>
    /\ rootBuilds = 1

(* C4: if an issuance throws at any step, no entry for the hostname is      *)
(* stored, the caller gets the failure, and the next call for the hostname  *)
(* runs a new issuance.                                                     *)
C4_FailureNotCached ==
    /\ [][\A c \in Callers :
            (pc[c] = "issuing" /\ faults' > faults) =>
                /\ secureContextCache' = secureContextCache
                /\ arg[c] \notin DOMAIN secureContextCache'
                /\ Done(c)'
                /\ result'[c].kind = "thrown"]_vars
    /\ [][\A c \in Callers :
            (/\ pc[c] = "pending" /\ op[c] = GetContext
             /\ arg[c] \notin DOMAIN secureContextCache
             /\ pc'[c] # "pending"
             /\ faults' = faults) =>
                /\ pc'[c] = "issuing"
                /\ attempts'[c] = 1]_vars

\* An issuance for a hostname threw; a later call for the same hostname ran
\* a new one, which succeeded.
C4_Witness ==
    \E c, d \in Callers :
        /\ IssueThrew(c)
        /\ IssuedOk(d)
        /\ arg[d] = arg[c]
        /\ keyGens = 3

(* C5: every leaf in the cache is signed with the private key of the one    *)
(* root whose PEM the root info reports, and its issuer is that root's      *)
(* subject; the root's issuer is its own subject.                           *)
C5_LeavesChainToRoot ==
    /\ caCertificate # Null =>
          /\ caCertificate[1].issuer = caCertificate[1].subject
          /\ PublicOf(caCertificate[1].signedWith) = caCertificate[1].publicKey
          /\ caCertificatePem = certificateToPem(caCertificate[1])
    /\ \A h \in DOMAIN secureContextCache :
          /\ caCertificatePem # Null
          /\ LeafOf(secureContextCache[h]).issuer = caCertificatePem[1].body.subject
          /\ PublicOf(LeafOf(secureContextCache[h]).signedWith)
                = caCertificatePem[1].body.publicKey
    /\ \A c \in Callers :
          GotAuthority(c) => result[c].value.certificatePem = caCertificatePem

\* Two leaves are cached and the root info has been returned.
C5_Witness ==
    /\ Cardinality(DOMAIN secureContextCache) = 2
    /\ \E c \in Callers : GotAuthority(c)

\* A context is complete: the private key of the leaf's own keypair, and
\* the chain leaf for hostname h first, root second.
Complete(ctx, h) ==
    /\ Len(ctx.key) = 1
    /\ ctx.key[1].label = "RSA PRIVATE KEY"
    /\ Len(ctx.cert) = 2
    /\ ctx.cert[1].label = "CERTIFICATE"
    /\ ctx.cert[2].label = "CERTIFICATE"
    /\ ~ctx.cert[1].body.cA
    /\ CommonName(ctx.cert[1].body) = h
    /\ PublicOf(ctx.key[1].body) = ctx.cert[1].body.publicKey
    /\ ctx.cert[2].body.cA
    /\ <<ctx.cert[2]>> = caCertificatePem
    /\ ctx.key[1].body # caKeyPair[1].privateKey

(* C6: every context returned or stored is complete: it pairs the private   *)
(* key of the leaf's own freshly generated keypair with a chain of exactly  *)
(* two certificates, the leaf first and the root second.                    *)
C6_ContextsComplete ==
    /\ \A h \in DOMAIN secureContextCache : Complete(secureContextCache[h], h)
    /\ \A c \in Callers : GotContext(c) => Complete(result[c].value, arg[c])
    /\ \A g, h \in DOMAIN secureContextCache :
          g # h => secureContextCache[g].key # secureContextCache[h].key

\* A call has returned a freshly issued context and two are cached.
C6_Witness ==
    /\ \E c \in Callers : IssuedOk(c)
    /\ Cardinality(DOMAIN secureContextCache) = 2

----------------------------------------------------------------------------
(* C7: for every hostname the leaf carries exactly one subject alternative  *)
(* name, whose value is the hostname, typed iPAddress (7) exactly when the  *)
(* hostname is a valid IPv4 or IPv6 literal and dNSName (2) otherwise.      *)
(* The code types "256.1.1.1" and "cafe" as iPAddress.                      *)
C7_SanTypedByValidLiteral ==
    (probe.kind = "host" /\ probe.altNames # <<>>) =>
        /\ Len(probe.altNames) = 1
        /\ probe.altNames[1].value = probe.hostname
        /\ probe.altNames[1].type = (IF IsIpLiteral(probe.hostname) THEN 7 ELSE 2)

(* C8: the classifier answers IP exactly for four dot-separated digit       *)
(* groups or for a string of hex groups that contains a colon; hex digits   *)
(* without a colon ("cafe", "1234") are DNS.  The code answers IP for them. *)
C8_ClassifierNeedsColon ==
    (probe.kind = "host" /\ probe.isIp # <<>>) =>
        probe.isIp[1] = (\/ MatchesDottedDigits(probe.hostname)
                         \/ /\ HasChar(probe.hostname, ":")
                            /\ MatchesHexColon(probe.hostname))

\* The same month and day n years later, as Date arithmetic gives it.
PlusYears(t, n) == setFullYear(t, getFullYear(t) + n)

(* C9: for every issuance instant the leaf's not-before is the instant      *)
(* minus one day and its not-after the instant plus one year, about one     *)
(* year after not-before.  On 1 January the code's not-after is the         *)
(* instant itself.                                                          *)
C9_LeafWindowOneYear ==
    (probe.kind = "clock" /\ probe.leaf # <<>>) =>
        LET v == probe.leaf[1]
        IN  /\ v.notBefore = probe.t - 1
            /\ v.notAfter = PlusYears(probe.t, 1)
            /\ v.notBefore <= probe.t
            /\ v.notAfter - v.notBefore \in 365..368

(* C10: for every construction instant the root's not-before is the         *)
(* instant minus one day and its not-after the instant plus five years.     *)
(* On 1 January the code's not-after is four years after the instant.       *)
C10_RootWindowFiveYears ==
    (probe.kind = "clock" /\ probe.root # <<>>) =>
        LET v == probe.root[1]
        IN  /\ v.notBefore = probe.t - 1
            /\ v.notAfter = PlusYears(probe.t, 5)
            /\ v.notAfter - v.notBefore \in 1826..1829

----------------------------------------------------------------------------
\* A hostname the contract accepts: a non-empty string.
WellFormed(hostname) == hostname # <<>>

(* C11: a call for an empty hostname is rejected with InvalidHostnameError  *)
(* before any leaf key is generated, and the cache gets no entry for it.    *)
(* The code has no check of the hostname: the call for "" goes on to the    *)
(* key generation of line 92 and, when nothing throws, caches the context.  *)
C11_InvalidHostnameRejected ==
    \A c \in Callers :
        (pc[c] # "idle" /\ op[c] = GetContext /\ ~WellFormed(arg[c])) =>
            /\ pc[c] # "issuing"
            /\ arg[c] \notin DOMAIN secureContextCache
            /\ Done(c) =>
                  /\ result[c].kind = "thrown"
                  /\ \/ result[c].value \in RootThrown
                     \/ ErrorOf(result[c].value).name = "InvalidHostnameError"

(* C12: once the construction of the root keypair or certificate has       *)
(* failed, no later call returns a context.  The code leaves the four root  *)
(* fields null after a failure, so the next call constructs the root again  *)
(* and, when that succeeds, issues and returns contexts.                    *)
C12_RootFailureIsFatal ==
    [][(\E c \in Callers : RootThrew(c)) =>
          \A d \in Callers : GotContext(d)' => GotContext(d)]_vars

(* C13: a failure carries the error kind of the step that failed:           *)
(* CryptoInitializationError for the root's key generation or signing,      *)
(* CertificateIssuanceError for a leaf's, so that the caller can tell the   *)
(* two apart.  The code throws the library's Error in both cases.           *)
C13_ErrorKindNamesStep ==
    \A c \in Callers :
        (Done(c) /\ result[c].kind = "thrown") =>
            /\ result[c].value \in RootThrown =>
                  /\ ErrorOf(result[c].value).name = "CryptoInitializationError"
                  /\ \A at \in LeafThrown : ErrorOf(at) # ErrorOf(result[c].value)
            /\ result[c].value \in LeafThrown =>
                  /\ ErrorOf(result[c].value).name = "CertificateIssuanceError"
                  /\ \A at \in RootThrown : ErrorOf(at) # ErrorOf(result[c].value)

\* The certificates issued so far: the root and the cached leaves.
Issued ==
    {caCertificate[i] : i \in DOMAIN caCertificate}
        \cup {LeafOf(secureContextCache[h]) : h \in DOMAIN secureContextCache}

\* The key generation a leaf's keypair came from.
KeyGenOf(ctx) == ctx.key[1].body[2]

(* C14, as stated: no two certificates issued in one process share a        *)
(* serial number, and the contexts of two distinct hostnames hold different *)
(* serial numbers and keypairs.  Nothing compares the serial numbers drawn  *)
(* by randomSerialNumber: two draws can coincide.                           *)
C14_SerialsNeverCollide ==
    /\ \A x, y \in Issued : x # y => x.serialNumber # y.serialNumber
    /\ \A g, h \in DOMAIN secureContextCache :
          g # h =>
              /\ LeafOf(secureContextCache[g]).serialNumber
                    # LeafOf(secureContextCache[h]).serialNumber
              /\ secureContextCache[g].key # secureContextCache[h].key

(* C14, amended: every certificate carries a serial number drawn by         *)
(* randomSerialNumber, and the contexts cached for two distinct hostnames   *)
(* hold keypairs of separate key generations of the process, different      *)
(* from each other and from the root's; equal serial numbers are not        *)
(* excluded.                                                                *)
C14_SeparateKeyGenerations ==
    /\ \A x \in Issued : x.serialNumber \in Serials
    /\ \A h \in DOMAIN secureContextCache :
          LET ctx == secureContextCache[h]
          IN  /\ KeyGenOf(ctx) \in 1..keyGens
              /\ LeafOf(ctx).publicKey = PublicOf(ctx.key[1].body)
              /\ ctx.key[1].body # caKeyPair[1].privateKey
              /\ LeafOf(ctx).publicKey # caKeyPair[1].publicKey
    /\ \A g, h \in DOMAIN secureContextCache :
          g # h =>
              /\ KeyGenOf(secureContextCache[g]) # KeyGenOf(secureContextCache[h])
              /\ LeafOf(secureContextCache[g]).publicKey
                    # LeafOf(secureContextCache[h]).publicKey

\* Two hostnames are cached, their leaves carrying the same serial number
\* and keypairs of two key generations.
C14_Witness ==
    \E g, h \in DOMAIN secureContextCache :
        /\ g # h
        /\ LeafOf(secureContextCache[g]).serialNumber
              = LeafOf(secureContextCache[h]).serialNumber
        /\ KeyGenOf(secureContextCache[g]) # KeyGenOf(secureContextCache[h])

(* C15: a call for a hostname that is already cached generates no key,      *)
(* signs nothing, reads no clock, and leaves the cache and the four root    *)
(* fields as they were; it returns the cached context.                      *)
C15_CacheHitNoWork ==
    [][\A c \in Callers :
          (/\ pc[c] = "pending" /\ op[c] = GetContext
           /\ arg[c] \in DOMAIN secureContextCache
           /\ pc'[c] # "pending") =>
              /\ keyGens' = keyGens
              /\ rootBuilds' = rootBuilds
              /\ faults' = faults
              /\ now' = now
              /\ secureContextCache' = secureContextCache
              /\ caKeyPair' = caKeyPair
              /\ caCertificate' = caCertificate
              /\ caCertificatePem' = caCertificatePem
              /\ caFingerprint256' = caFingerprint256
              /\ attempts'[c] = 0
              /\ GotContext(c)'
              /\ result'[c].value = secureContextCache[arg[c]]]_vars

\* A call was served from the cache: the process has generated two keys,
\* the root's and the leaf's, and the call ran no issuance.
C15_Witness ==
    \E c \in Callers :
        /\ GotContext(c)
        /\ attempts[c] = 0
        /\ keyGens = 2
        /\ rootBuilds = 1
        /\ faults = 0

\* The private keys a PEM text holds.
PrivateKeysIn(pem) ==
    {pem[i].body : i \in {j \in DOMAIN pem : pem[j].label = "RSA PRIVATE KEY"}}

(* C16: no returned value holds the root's private key (a certificate       *)
(* records only the signature made with it): the root info has exactly the  *)
(* fields certificatePem, subject and fingerprint256, all derived from the  *)
(* certificate, and the only private key in a returned context is the       *)
(* leaf's own.                                                              *)
C16_RootKeyNeverReturned ==
    /\ \A c \in Callers :
          GotAuthority(c) =>
              LET info == result[c].value
              IN  /\ DOMAIN info = {"certificatePem", "subject", "fingerprint256"}
                  /\ info.certificatePem = certificateToPem(caCertificate[1])
                  /\ PrivateKeysIn(info.certificatePem) = {}
                  /\ info.subject = CA_COMMON_NAME
                  /\ info.fingerprint256 = sha256FingerprintFromDer(caCertificate[1])
    /\ \A c \in Callers :
          GotContext(c) =>
              LET ctx == result[c].value
              IN  /\ DOMAIN ctx = {"key", "cert"}
                  /\ PrivateKeysIn(ctx.cert) = {}
                  /\ \A k \in PrivateKeysIn(ctx.key) :
                        /\ PublicOf(k) = LeafOf(ctx).publicKey
                        /\ k # caKeyPair[1].privateKey
                  /\ caKeyPair[1].privateKey \notin PrivateKeysIn(ctx.key)

\* One caller holds the root info and another a freshly issued context.
C16_Witness ==
    \E c, d \in Callers : GotAuthority(c) /\ IssuedOk(d)

(* C17: the root is built lazily.  No root key exists before the first      *)
(* call, and one comes into being only while a call runs.  A call of        *)
(* getPreviewProxyCertificateAuthority has no precondition on the state:   *)
(* whenever the thread is free it can run (it has a clock reading and an    *)
(* outcome to take), and it either returns the info of the root, which it   *)
(* has built first when there was none, or reports the failure of that      *)
(* construction and leaves the root unbuilt.                                *)
C17_RootBuiltLazily ==
    /\ [](calls = 0 =>
            /\ caKeyPair = Null /\ caCertificate = Null
            /\ caCertificatePem = Null /\ caFingerprint256 = Null
            /\ keyGens = 0)
    /\ [][caKeyPair' # caKeyPair =>
            \E c \in Callers : pc[c] = "pending" /\ pc'[c] # "pending"]_vars
    /\ [](\A c \in Callers :
            (pc[c] = "pending" /\ op[c] = GetAuthority /\ running = {}) =>
                /\ "none" \in MayThrow(RootFailures)
                /\ Later # {})
    /\ [][\A c \in Callers :
            (pc[c] = "pending" /\ op[c] = GetAuthority /\ pc'[c] # "pending") =>
                \/ /\ GotAuthority(c)'
                   /\ CaReady'
                   /\ result'[c].value.certificatePem = caCertificatePem'
                   /\ rootBuilds' = (IF CaReady THEN rootBuilds ELSE rootBuilds + 1)
                \/ /\ ~CaReady
                   /\ RootThrew(c)'
                   /\ ~CaReady'
                   /\ caKeyPair' = Null]_vars

\* The first call of the process asked for the root info: it built the
\* root and returned its info, no context having been asked for.
C17_Witness ==
    \E c \in Callers :
        /\ GotAuthority(c)
        /\ calls = 1
        /\ rootBuilds = 1
        /\ keyGens = 1
        /\ secureContextCache = <<>>

(* C18: the cache only grows and its entries never change: over every      *)
(* step a cached hostname stays cached with the same context; and each of   *)
(* the root's keypair, certificate, PEM and fingerprint, once set, keeps    *)
(* its value.                                                               *)
C18_CacheAndRootImmutable ==
    [][/\ \A h \in DOMAIN secureContextCache :
             /\ h \in DOMAIN secureContextCache'
             /\ secureContextCache'[h] = secureContextCache[h]
       /\ caKeyPair # Null => caKeyPair' = caKeyPair
       /\ caCertificate # Null => caCertificate' = caCertificate
       /\ caCertificatePem # Null => caCertificatePem' = caCertificatePem
       /\ caFingerprint256 # Null => caFingerprint256' = caFingerprint256]_vars

\* Two hostnames are cached, one issued on 31 December and the other on
\* 1 January: the older entry and the root are still there.
C18_Witness ==
    /\ caBuiltAt # <<>>
    /\ \E g, h \in DOMAIN secureContextCache :
          /\ g # h
          /\ issuedAt[g] < issuedAt[h]
          /\ LeafOf(secureContextCache[g]).validity.notBefore = issuedAt[g] - 1

(* C19: while the issuance for one hostname is in progress, a call for      *)
(* another hostname is not stalled by it: it can look up the cache, and     *)
(* return a cached context or start its own issuance, before the first      *)
(* issuance finishes.  The issuance is synchronous: from the cache miss to  *)
(* the return it holds the thread, and every other call waits.              *)
C19_OtherHostNotStalled ==
    \A c, d \in Callers :
        (/\ pc[c] = "issuing"
         /\ pc[d] = "pending" /\ op[d] = GetContext
         /\ arg[d] # arg[c]) =>
            ENABLED Begin(d)

(* C20: when first-time calls overlap while the root is not yet built,      *)
(* exactly one root construction runs and all of those callers use the      *)
(* root it produced.  When that construction throws, the next of the        *)
(* overlapping calls runs a second one.                                     *)
C20_OneRootConstruction ==
    [][\A c, d \in Callers :
          (/\ c # d /\ d \in overlap[c]
           /\ RootThrew(c)
           /\ pc[d] = "pending") =>
              /\ keyGens' = keyGens
              /\ rootBuilds' = rootBuilds
              /\ faults' = faults]_vars

----------------------------------------------------------------------------
(* C21: the cache is looked up with the hostname exactly as supplied.  A    *)
(* lookup hits only an entry stored under the identical string; names that  *)
(* differ in letter case, a trailing dot or a wildcard label are issued     *)
(* and cached as separate credentials, each with its own key generation,    *)
(* and a call gets the context issued for exactly the name it gave.         *)
C21_ExactHostnameKey ==
    /\ \A g, h \in NearNames :
          CacheGet([x \in {g} |-> g], h) = (IF h = g THEN <<g>> ELSE <<>>)
    /\ \A h \in DOMAIN secureContextCache :
          CommonName(LeafOf(secureContextCache[h])) = h
    /\ \A g, h \in DOMAIN secureContextCache :
          g # h => secureContextCache[g].key # secureContextCache[h].key
    /\ \A c \in Callers :
          GotContext(c) =>
              /\ CommonName(LeafOf(result[c].value)) = arg[c]
              /\ result[c].value = secureContextCache[arg[c]]

\* "a.io" and "A.io" are both cached, each under its own spelling, and a
\* call for one of them was served from the cache.
C21_Witness ==
    /\ DOMAIN secureContextCache = {HostDns, HostUpper}
    /\ \E c \in Callers : GotContext(c) /\ attempts[c] = 0

(* C22: an issuance that throws leaves the cache entries of every other     *)
(* hostname and the root as they were, and a later call for another         *)
(* hostname is served as usual: from the cache when it is cached, by a new  *)
(* issuance when it is not.                                                 *)
C22_FailureIsLocal ==
    /\ [][\A c \in Callers :
            (pc[c] = "issuing" /\ IssueThrew(c)') =>
                /\ \A h \in DOMAIN secureContextCache \ {arg[c]} :
                      /\ h \in DOMAIN secureContextCache'
                      /\ secureContextCache'[h] = secureContextCache[h]
                /\ DOMAIN secureContextCache' = DOMAIN secureContextCache
                /\ caKeyPair' = caKeyPair
                /\ caCertificate' = caCertificate
                /\ caCertificatePem' = caCertificatePem
                /\ caFingerprint256' = caFingerprint256]_vars
    /\ [][\A c, d \in Callers :
            (/\ IssueThrew(c)
             /\ pc[d] = "pending" /\ op[d] = GetContext /\ arg[d] # arg[c]
             /\ pc'[d] # "pending"
             /\ faults' = faults) =>
                IF arg[d] \in DOMAIN secureContextCache
                THEN GotContext(d)' /\ result'[d].value = secureContextCache[arg[d]]
                ELSE pc'[d] = "issuing"]_vars

\* A hostname was issued and cached (key generation 2); the issuance for
\* another hostname then threw after its key generation (3); the first
\* hostname is still cached and its caller holds that context.
C22_Witness ==
    \E c, d \in Callers :
        /\ IssueThrew(c)
        /\ keyGens = 3
        /\ GotContext(d) /\ arg[d] # arg[c]
        /\ arg[d] \in DOMAIN secureContextCache
        /\ KeyGenOf(secureContextCache[arg[d]]) = 2
        /\ calls = 3

(* C23: the root is the only certificate marked CA with the certificate     *)
(* signing key usage; every cached leaf has CA = false, key usage digital   *)
(* signature and key encipherment only, and extended key usage server       *)
(* authentication only.                                                     *)
C23_OnlyRootIsCa ==
    /\ caCertificate # Null =>
          /\ caCertificate[1].cA
          /\ "keyCertSign" \in caCertificate[1].keyUsage
    /\ \A h \in DOMAIN secureContextCache :
          LET leaf == LeafOf(secureContextCache[h])
          IN  /\ ~leaf.cA
              /\ leaf.keyUsage = {"digitalSignature", "keyEncipherment"}
              /\ leaf.extKeyUsage = {"serverAuth"}
    /\ \A x \in Issued :
          (x.cA \/ "keyCertSign" \in x.keyUsage) => <<x>> = caCertificate
    /\ \A c \in Callers :
          GotContext(c) =>
              /\ ~LeafOf(result[c].value).cA
              /\ "keyCertSign" \notin LeafOf(result[c].value).keyUsage

\* The root and two leaves have been issued, a caller holding one of them.
C23_Witness ==
    /\ Cardinality(Issued) = 3
    /\ \E c \in Callers : GotContext(c)

(* C24: the context cached under hostname h holds a leaf whose subject      *)
(* common name is h and whose one subject alternative name has the value    *)
(* h; a context issued for one hostname is never stored under or returned   *)
(* for another.                                                             *)
C24_ContextMatchesHostname ==
    /\ \A h \in DOMAIN secureContextCache :
          LET leaf == LeafOf(secureContextCache[h])
          IN  /\ CommonName(leaf) = h
              /\ Len(leaf.altNames) = 1
              /\ leaf.altNames[1].value = h
    /\ \A c \in Callers :
          GotContext(c) =>
              LET leaf == LeafOf(result[c].value)
              IN  /\ CommonName(leaf) = arg[c]
                  /\ Len(leaf.altNames) = 1
                  /\ leaf.altNames[1].value = arg[c]
    /\ \A g, h \in DOMAIN secureContextCache :
          g # h => secureContextCache[g] # secureContextCache[h]

\* Two hostnames are cached and two callers hold contexts of different
\* hostnames, one served from the cache.
C24_Witness ==
    /\ Cardinality(DOMAIN secureContextCache) = 2
    /\ \E c, d \in Callers :
          /\ GotContext(c) /\ GotContext(d)
          /\ arg[c] # arg[d]
          /\ attempts[d] = 0

\* None of the four root fields is set.
RootUnset ==
    /\ caKeyPair = Null /\ caCertificate = Null
    /\ caCertificatePem = Null /\ caFingerprint256 = Null

\* All four are set and fit together: the certificate's public key is the
\* keypair's, the PEM text and the fingerprint are the certificate's.
RootConsistent ==
    /\ caKeyPair # Null /\ caCertificate # Null
    /\ caCertificatePem # Null /\ caFingerprint256 # Null
    /\ caCertificate[1].publicKey = caKeyPair[1].publicKey
    /\ PublicOf(caKeyPair[1].privateKey) = caKeyPair[1].publicKey
    /\ Len(caCertificatePem) = 1
    /\ caCertificatePem[1].label = "CERTIFICATE"
    /\ caCertificatePem[1].body = caCertificate[1]
    /\ caFingerprint256[1][2] = caCertificate[1]

(* C25: between operations the four root fields are either all unset or     *)
(* all set and mutually consistent, and a root construction that throws     *)
(* leaves all four unset.                                                   *)
C25_RootAllOrNothing ==
    /\ [](RootUnset \/ RootConsistent)
    /\ [][\A c \in Callers :
            (pc[c] = "pending" /\ RootThrew(c)') => RootUnset /\ RootUnset']_vars

\* A root construction threw after its key generation, and the four fields
\* are unset.
C25_Witness ==
    /\ RootUnset
    /\ rootBuilds = 1
    /\ \E c \in Callers : RootThrew(c)

(* C26: no leaf is signed before the root is fully built: an issuance runs  *)
(* only with the root set, a non-empty cache implies the root is set, and   *)
(* every cached leaf was made after the root: signed with the root's key,   *)
(* from a later key generation, at a clock reading not before the root's.   *)
C26_RootBeforeLeaves ==
    /\ \A c \in Callers : pc[c] = "issuing" => CaReady
    /\ secureContextCache # <<>> => CaReady /\ caBuiltAt # <<>>
    /\ \A h \in DOMAIN secureContextCache :
          /\ LeafOf(secureContextCache[h]).signedWith = caKeyPair[1].privateKey
          /\ KeyGenOf(secureContextCache[h]) > caKeyPair[1].privateKey[2]
          /\ issuedAt[h] >= caBuiltAt[1]
    /\ \A c \in Callers : GotContext(c) => CaReady

\* The first construction of the root threw; a second built it (key
\* generation 2) and a leaf was then issued and cached (key generation 3).
C26_Witness ==
    /\ rootBuilds = 2
    /\ caKeyPair # Null
    /\ \E h \in DOMAIN secureContextCache : KeyGenOf(secureContextCache[h]) = 3

(* C27: the issuances that completed successfully are as many as the        *)
(* hostnames in the cache: every successful issuance adds exactly one       *)
(* hostname that was not cached, the cache changes in no other way, so a    *)
(* hostname is successfully issued at most once; and one call makes at      *)
(* most one issuance attempt.                                               *)
C27_IssuancesMatchCache ==
    /\ [](\A c \in Callers : attempts[c] \in {0, 1})
    /\ [](\A c \in Callers : pc[c] = "issuing" => attempts[c] = 1)
    /\ [][\A c \in Callers :
            (pc[c] = "issuing" /\ GotContext(c)') =>
                /\ arg[c] \notin DOMAIN secureContextCache
                /\ DOMAIN secureContextCache' = DOMAIN secureContextCache \cup {arg[c]}]_vars
    /\ [][secureContextCache' # secureContextCache =>
            /\ \E c \in Callers : pc[c] = "issuing" /\ GotContext(c)'
            /\ Cardinality(DOMAIN secureContextCache')
                  = Cardinality(DOMAIN secureContextCache) + 1]_vars
    /\ [][\A c \in Callers :
            attempts'[c] > attempts[c] => pc[c] = "pending" /\ attempts[c] = 0]_vars

\* Three issuances ran, each with its own key generation; one threw, and the
\* cache holds the two hostnames of the two that succeeded.
C27_Witness ==
    /\ rootBuilds = 1
    /\ keyGens = 4
    /\ Cardinality(DOMAIN secureContextCache) = 2
    /\ \E c \in Callers : IssueThrew(c)

(* C28: every context returned, freshly issued or served from the cache,    *)
(* carries a leaf whose not-after is later than the time of the return,     *)
(* and a root whose not-after is later than it too.  The time of the        *)
(* return is no earlier than the latest clock reading.  A leaf issued on    *)
(* 1 January has the instant of its issuance as not-after.                  *)
C28_ReturnedContextsValid ==
    [][\A c \in Callers :
          (~GotContext(c) /\ GotContext(c)') =>
              /\ LeafOf(result'[c].value).validity.notAfter > now'
              /\ result'[c].value.cert[2].body.validity.notAfter > now']_vars

(* C29: getPreviewProxyCertificateAuthority never reads or changes the      *)
(* leaf cache: a call of it, returning or throwing, leaves the cached       *)
(* hostnames and their contexts as they were, and what it returns is made   *)
(* of the root's fields alone.                                              *)
C29_AuthorityLeavesCache ==
    [][\A c \in Callers :
          (pc[c] = "pending" /\ op[c] = GetAuthority /\ pc'[c] # "pending") =>
              /\ secureContextCache' = secureContextCache
              /\ issuedAt' = issuedAt
              /\ \A d \in Callers : attempts'[d] = attempts[d]
              /\ \/ RootThrew(c)'
                 \/ /\ GotAuthority(c)'
                    /\ result'[c].value =
                          [certificatePem |-> caCertificatePem',
                           subject        |-> CA_COMMON_NAME,
                           fingerprint256 |-> caFingerprint256'[1]]]_vars

\* The first caller's only call issued and cached a context; the second
\* caller then asked for the root info, with no other call in flight, and
\* got it: the entry is still cached.
C29_Witness ==
    /\ calls = 2
    /\ IssuedOk(1)
    /\ GotAuthority(2)
    /\ overlap[2] = {}
    /\ arg[1] \in DOMAIN secureContextCache
    /\ secureContextCache[arg[1]] = result[1].value

====
